---- MODULE Spec2Model ----
(***************************************************************************)
(* The pivot / aggregation pipeline of the financial table chart           *)
(* (financial-table/src/chart.ts, function render), as a state machine.    *)
(*                                                                         *)
(* One run of render is the chain                                          *)
(*   idle -> aggregate (one step per input row) -> cumul -> order ->       *)
(*   subtotal -> initial -> grandtotal -> gtcumul -> sort -> done          *)
(* with the early exits nodata and fillin, and threw for a TypeError.      *)
(*                                                                         *)
(* JavaScript values are tagged records (string, number, NaN, boolean,     *)
(* undefined); a string is a sequence of tokens, so that concatenation is  *)
(* concatenation and the separator " || " is a token of its own; an object *)
(* is the sequence of its properties in insertion order.                   *)
(***************************************************************************)
EXTENDS Integers, Sequences, FiniteSets, TLC

VARIABLES
    data,                 \* render's argument data: the input rows
    slots,                \* render's argument slots, as the counts / labels read from it
    pc,                   \* position of the run inside render
    run,                  \* 1 for the first call of render, 2 for the repeated call
    rowIdx,               \* index of the next row of data.forEach
    numberOfCategories,   \* local of render
    months,               \* local of render
    allDataRecords,       \* local of render
    orders,               \* local of render: level -> labels in first-seen order
    measuresInAllRecords, \* local of render
    container,            \* what render left in the container element
    firstData,            \* the rows as they were handed to the first call
    firstOut,             \* the record list, months and container of the first call
    columnDefs            \* local of render `columns`: the column groups of the table

vars == <<data, slots, pc, run, rowIdx, numberOfCategories, months, allDataRecords,
          orders, measuresInAllRecords, container, firstData, firstOut, columnDefs>>

----------------------------------------------------------------------------
(* JavaScript values *)

Undef == [k |-> "u", s |-> <<>>, n |-> 0]
NaN == [k |-> "nan", s |-> <<>>, n |-> 0]
True == [k |-> "b", s |-> <<>>, n |-> 1]
Str(t) == [k |-> "s", s |-> t, n |-> 0]
Num(x) == [k |-> "n", s |-> <<>>, n |-> x]

\* Number(v): the labels of the model are not numeric strings
ToNumber(v) == IF v.k = "n" THEN v ELSE IF v.k = "b" THEN Num(1) ELSE NaN

\* a + b on two numbers
Add(a, b) == IF a.k = "nan" \/ b.k = "nan" THEN NaN ELSE Num(a.n + b.n)

\* a - b: both operands go through ToNumber
Minus(a, b) ==
    LET x == ToNumber(a)
        y == ToNumber(b)
    IN IF x.k = "nan" \/ y.k = "nan" THEN NaN ELSE Num(x.n - y.n)

\* the value without the ?? 0
OrZeroDropped(v) == v

\* v ?? 0
OrZero(v) == IF v.k = "u" THEN Num(0) ELSE v

\* the truthiness of a value
Truthy(v) ==
    CASE v.k = "n" -> v.n # 0
      [] v.k = "s" -> v.s # <<>>
      [] v.k = "b" -> v.n = 1
      [] OTHER -> FALSE

\* String(v)
ToStr(v) ==
    CASE v.k = "s" -> v.s
      [] v.k = "n" -> <<ToString(v.n)>>
      [] v.k = "nan" -> <<"NaN">>
      [] v.k = "b" -> <<"true">>
      [] OTHER -> <<"undefined">>

Sep == <<"||">>

\* row[i] with a 0-based index; undefined past the end of the row
Cell(row, i) == IF i + 1 \in DOMAIN row THEN row[i + 1] ELSE Undef

----------------------------------------------------------------------------
(* Objects: the properties in insertion order *)

Has(rec, key) == \E i \in DOMAIN rec : rec[i].key = key

Get(rec, key) ==
    IF Has(rec, key) THEN rec[CHOOSE i \in DOMAIN rec : rec[i].key = key].val ELSE Undef

Put(rec, key, v) ==
    IF Has(rec, key)
    THEN [i \in DOMAIN rec |-> IF rec[i].key = key THEN [key |-> key, val |-> v] ELSE rec[i]]
    ELSE Append(rec, [key |-> key, val |-> v])

Keys(rec) == [i \in DOMAIN rec |-> rec[i].key]

KCategory == <<"category">>
KOrder == <<"order">>
KSubtotal == <<"subtotal">>
KGrandtotal == <<"grandtotal">>
KLevel(i) == <<"category-", ToString(i)>>
KColumn(period, measure) == period \o Sep \o measure
Cumul == <<"Cumul">>
Gap == <<"Gap">>

\* Array.prototype.includes / indexOf on a list of values
Includes(list, v) == \E i \in DOMAIN list : list[i] = v
IndexOf(list, v) ==
    IF Includes(list, v)
    THEN (CHOOSE i \in DOMAIN list : list[i] = v /\ \A j \in 1..(i - 1) : list[j] # v) - 1
    ELSE -1

----------------------------------------------------------------------------
(* The layout read from the slots and the first row *)

numberOfMeasures == Len(slots.measure)
hasDifference == numberOfMeasures = 2
measureLabels == IF hasDifference THEN Append(slots.measure, Gap) ELSE slots.measure
hasOrder == slots.order > 0
baseIndex == IF hasOrder THEN 2 ELSE 1

Max(a, b) == IF a >= b THEN a ELSE b
Min(a, b) == IF a <= b THEN a ELSE b

maxCatsFromData(d) ==
    Max(0, (IF Len(d) > 0 THEN Len(d[1]) ELSE baseIndex) - baseIndex - numberOfMeasures)
catsFromSlots == slots.category + slots.columns
forceTwoLevel == slots.columns > 0

\* the number of levels the slots ask for, whatever the sample row offers
NumberOfCategoriesUnclamped(d) ==
    IF forceTwoLevel THEN catsFromSlots
    ELSE IF catsFromSlots # 0 THEN catsFromSlots ELSE maxCatsFromData(d)

\* forceTwoLevel ? min(catsFromSlots, max(1, maxCats)) : max(0, min(catsFromSlots || maxCats, maxCats))
NumberOfCategories(d) ==
    IF forceTwoLevel
    THEN Min(catsFromSlots, Max(1, maxCatsFromData(d)))
    ELSE Max(0, Min(IF catsFromSlots # 0 THEN catsFromSlots ELSE maxCatsFromData(d),
                    maxCatsFromData(d)))

\* no test for the empty input
IsEmptyInputNever(d) == FALSE

\* data?.length === 0
IsEmptyInput(d) == Len(d) = 0

\* a test that lets rows of 2 cells through
IsShortInputBelowTwo(d) == Len(d) >= 1 /\ Len(d[1]) < 2

\* data?.length >= 1 and data[0].length < 3
IsShortInput(d) == Len(d) >= 1 /\ Len(d[1]) < 3

----------------------------------------------------------------------------
(* Array.prototype.sort: the engine's sort for arrays of fewer than 64     *)
(* elements: it finds the first run (reversing a strictly descending one)  *)
(* and inserts the remaining elements by binary insertion.  It works on    *)
(* the positions 1..n of the array; c[i, j] is the comparator's result on  *)
(* the elements at positions i and j (NaN counting as 0).                  *)

RECURSIVE RunEnd(_, _, _, _)
RunEnd(a, c, idx, desc) ==
    IF idx > Len(a) THEN Len(a)
    ELSE LET o == c[a[idx], a[idx - 1]]
         IN IF (desc /\ o >= 0) \/ (~desc /\ o < 0)
            THEN idx - 1
            ELSE RunEnd(a, c, idx + 1, desc)

Reverse(a) == [i \in DOMAIN a |-> a[Len(a) + 1 - i]]

CountAndMakeRun(a, c) ==
    LET desc == c[a[2], a[1]] < 0
        len == RunEnd(a, c, 3, desc)
        made == IF desc THEN Reverse(SubSeq(a, 1, len)) \o SubSeq(a, len + 1, Len(a)) ELSE a
    IN [run |-> len, arr |-> made]

RECURSIVE BinarySearch(_, _, _, _, _)
BinarySearch(a, c, pivot, left, right) ==
    IF left >= right THEN left
    ELSE LET mid == left + ((right - left) \div 2)
         IN IF c[pivot, a[mid]] < 0
            THEN BinarySearch(a, c, pivot, left, mid)
            ELSE BinarySearch(a, c, pivot, mid + 1, right)

RECURSIVE BinaryInsertionSort(_, _, _)
BinaryInsertionSort(a, c, start) ==
    IF start > Len(a) THEN a
    ELSE LET pivot == a[start]
             left == BinarySearch(a, c, pivot, 1, start)
             moved == SubSeq(a, 1, left - 1) \o <<pivot>> \o SubSeq(a, left, start - 1)
                      \o SubSeq(a, start + 1, Len(a))
         IN BinaryInsertionSort(moved, c, start + 1)

\* the permutation of 1..n that sort produces
SortPositions(n, c) ==
    IF n < 2 THEN [i \in 1..n |-> i]
    ELSE LET r == CountAndMakeRun([i \in 1..n |-> i], c)
         IN BinaryInsertionSort(r.arr, c, r.run + 1)

----------------------------------------------------------------------------
(* data.forEach: one input row folded into the record list *)

\* months.push(month) unless months.includes(month)
MonthsWith(ms, row) == IF Includes(ms, Cell(row, 0)) THEN ms ELSE Append(ms, Cell(row, 0))

\* the loop that builds `categories` and `categoryKey` for one row
RECURSIVE BuildCategories(_, _, _, _, _)
BuildCategories(row, n, i, categoryKey, categories) ==
    IF i >= n THEN categories
    ELSE LET display == ToStr(Cell(row, baseIndex + i))
             key == (IF categoryKey # <<>> THEN categoryKey \o Sep ELSE <<>>) \o display
         IN BuildCategories(row, n, i + 1, key,
                Put(Put(categories, KCategory, Str(key)), KLevel(i + 1), Str(display)))

\* a lookup that never finds the record
FindCategoryNever(records, category) == 0

\* allDataRecords.find(record => record.category === categories.category), 0 if none
FindCategory(records, category) ==
    IF \E i \in DOMAIN records : Get(records[i], KCategory) = category
    THEN CHOOSE i \in DOMAIN records :
            /\ Get(records[i], KCategory) = category
            /\ \A j \in 1..(i - 1) : Get(records[j], KCategory) # category
    ELSE 0

\* an order that is written only when the record has none yet
WithOrderSeedOnly(rec, row) ==
    IF hasOrder /\ Cell(row, 1).k # "u" /\ ~Has(rec, KOrder) THEN Put(rec, KOrder, Cell(row, 1)) ELSE rec

\* if (hasOrder) { if (typeof order !== 'undefined') categoryRecord.order = order }
WithOrder(rec, row) ==
    IF hasOrder /\ Cell(row, 1).k # "u" THEN Put(rec, KOrder, Cell(row, 1)) ELSE rec

\* for (i < numberOfMeasures) categoryRecord[month || measureLabels[i]] = row[measureIndexAsOf + i]
RECURSIVE WithMeasures(_, _, _, _, _)
WithMeasures(rec, row, month, measureIndexAsOf, i) ==
    IF i >= numberOfMeasures THEN rec
    ELSE WithMeasures(Put(rec, KColumn(month, measureLabels[i + 1]), Cell(row, measureIndexAsOf + i)),
                      row, month, measureIndexAsOf, i + 1)

\* the difference with its operands exchanged
GapOfSwapped(row, measureIndexAsOf) ==
    Minus(Cell(row, measureIndexAsOf), Cell(row, measureIndexAsOf + 1))

\* row[measureIndexAsOf + 1] - row[measureIndexAsOf]
GapOf(row, measureIndexAsOf) == Minus(Cell(row, measureIndexAsOf + 1), Cell(row, measureIndexAsOf))

WithGap(rec, row, month, measureIndexAsOf) ==
    IF hasDifference
    THEN Put(rec, KColumn(month, Gap), GapOf(row, measureIndexAsOf))
    ELSE rec

\* an aggregation that keeps the values a record already has for the row's period
AggregateOneKeepFirst(records, row, n) ==
    LET month == ToStr(Cell(row, 0))
        measureIndexAsOf == baseIndex + n
        categories == BuildCategories(row, n, 0, <<>>, <<>>)
        found == FindCategory(records, Get(categories, KCategory))
        categoryRecord == IF found = 0 THEN categories ELSE records[found]
        filled == WithGap(WithMeasures(WithOrder(categoryRecord, row), row, month,
                                       measureIndexAsOf, 0),
                          row, month, measureIndexAsOf)
    IN IF found = 0 THEN Append(records, filled)
       ELSE IF \E i \in 1..Len(measureLabels) : Has(records[found], KColumn(month, measureLabels[i]))
            THEN records
            ELSE [records EXCEPT ![found] = filled]

\* the record list after the body of data.forEach has run on `row`
AggregateOne(records, row, n) ==
    LET month == ToStr(Cell(row, 0))
        measureIndexAsOf == baseIndex + n
        categories == BuildCategories(row, n, 0, <<>>, <<>>)
        found == FindCategory(records, Get(categories, KCategory))
        categoryRecord == IF found = 0 THEN categories ELSE records[found]
        filled == WithGap(WithMeasures(WithOrder(categoryRecord, row), row, month,
                                       measureIndexAsOf, 0),
                          row, month, measureIndexAsOf)
    IN IF found = 0 THEN Append(records, filled) ELSE [records EXCEPT ![found] = filled]

----------------------------------------------------------------------------
(* The cumulative columns *)

\* for (month of months) record[Cumul || m] = Number(record[Cumul || m] ?? 0) + Number(record[month || m] ?? 0)
RECURSIVE CumulMonths(_, _, _, _)
CumulMonths(rec, measure, ms, i) ==
    IF i > Len(ms) THEN rec
    ELSE CumulMonths(
            Put(rec, KColumn(Cumul, measure),
                Add(ToNumber(OrZero(Get(rec, KColumn(Cumul, measure)))),
                    ToNumber(OrZero(Get(rec, KColumn(ToStr(ms[i]), measure)))))),
            measure, ms, i + 1)

RECURSIVE CumulMeasures(_, _, _)
CumulMeasures(rec, ms, i) ==
    IF i > Len(measureLabels) THEN rec
    ELSE CumulMeasures(
            CumulMonths(Put(rec, KColumn(Cumul, measureLabels[i]), Num(0)), measureLabels[i], ms, 1),
            ms, i + 1)

\* a cumulative pass that already appends a record marked as the grand total
WithCumulAndTotal(records, ms) ==
    Append([r \in DOMAIN records |-> CumulMeasures(records[r], ms, 1)],
           <<[key |-> KCategory, val |-> Str(<<"Grand Total">>)], [key |-> KSubtotal, val |-> True],
             [key |-> KGrandtotal, val |-> True]>>)

\* allDataRecords.forEach(record => { for (measure of measures) ... })
WithCumul(records, ms) == [r \in DOMAIN records |-> CumulMeasures(records[r], ms, 1)]

----------------------------------------------------------------------------
(* The row-level sort and the per-level order lists *)

\* (a, b) => a.order && b.order ? a.order - b.order : 0
OrderCompare(a, b) ==
    IF Truthy(Get(a, KOrder)) /\ Truthy(Get(b, KOrder))
    THEN LET d == Minus(Get(a, KOrder), Get(b, KOrder)) IN IF d.k = "nan" THEN 0 ELSE d.n
    ELSE 0

SortByOrder(records) ==
    LET c == [i \in DOMAIN records, j \in DOMAIN records |-> OrderCompare(records[i], records[j])]
        p == SortPositions(Len(records), c)
    IN [i \in DOMAIN records |-> records[p[i]]]

\* the distinct values of record[category-level] in record order
RECURSIVE LevelOrder(_, _, _, _)
LevelOrder(records, level, i, acc) ==
    IF i > Len(records) THEN acc
    ELSE LET v == Get(records[i], KLevel(level))
         IN LevelOrder(records, level, i + 1, IF Includes(acc, v) THEN acc ELSE Append(acc, v))

OrdersOf(records, n) == [level \in 1..n |-> LevelOrder(records, level, 1, <<>>)]

----------------------------------------------------------------------------
(* Subtotals, grand total and the two corrections of the cumulative columns *)

Initial == <<"Initial">>
Final == <<"Final">>
CashflowNet == <<"Cashflow Net">>
GrandTotal == <<"Grand Total">>
InitialSolde == <<"Initial", "||", "Solde Initial">>
GrandTotalOrder == 999999

\* Object.keys(allDataRecords[0]).filter((_, index) => index > numberOfCategories + (hasOrder ? 1 : 0))
MeasuresInAllRecords(records, n) ==
    LET keys == Keys(records[1])
    IN SubSeq(keys, n + (IF hasOrder THEN 1 ELSE 0) + 2, Len(keys))

\* a test that knows the opening balance only
IsBoundaryInitialOnly(x) == x = Str(Initial)

\* ['Initial', 'Final'].includes(x)
IsBoundary(x) == x \in {Str(Initial), Str(Final)}

\* records.reduce((acc, record) => acc + Number(record[measure]), 0)
RECURSIVE SumColumn(_, _, _, _)
SumColumn(rows, measure, i, acc) ==
    IF i > Len(rows) THEN acc
    ELSE SumColumn(rows, measure, i + 1, Add(acc, ToNumber(Get(rows[i], measure))))

\* for (measure of measuresInAllRecords) target[measure] = sum of the column over rows
RECURSIVE WithSums(_, _, _, _)
WithSums(target, rows, columns, i) ==
    IF i > Len(columns) THEN target
    ELSE WithSums(Put(target, columns[i], SumColumn(rows, columns[i], 1, Num(0))),
                  rows, columns, i + 1)

\* Array.prototype.filter
RECURSIVE Filter(_, _, _)
Filter(records, keep, i) ==
    IF i > Len(records) THEN <<>>
    ELSE (IF keep[i] THEN <<records[i]>> ELSE <<>>) \o Filter(records, keep, i + 1)

\* the rows a subtotal of `category` sums
SubtotalRows(records, category) ==
    Filter(records,
           [i \in DOMAIN records |->
               IF category = Str(CashflowNet)
               THEN /\ ~IsBoundary(Str(ToStr(Get(records[i], KLevel(1)))))
                    /\ ~Truthy(Get(records[i], KSubtotal))
               ELSE Get(records[i], KLevel(1)) = category],
           1)

RECURSIVE WithLevels(_, _, _, _)
WithLevels(rec, label, n, i) ==
    IF i > n THEN rec ELSE WithLevels(Put(rec, KLevel(i), label), label, n, i + 1)

SubtotalRecord(records, category, n, columns) ==
    WithSums(WithLevels(<<[key |-> KCategory, val |-> category],
                          [key |-> KSubtotal, val |-> True]>>, category, n, 1),
             SubtotalRows(records, category), columns, 1)

\* for (category of orders['category-1']) if (!boundary) allDataRecords.push(subtotal)
RECURSIVE WithSubtotals(_, _, _, _, _)
WithSubtotals(records, labels, n, columns, i) ==
    IF i > Len(labels) THEN records
    ELSE WithSubtotals(
            IF IsBoundary(labels[i]) THEN records
            ELSE Append(records, SubtotalRecord(records, labels[i], n, columns)),
            labels, n, columns, i + 1)

\* for (measure of measureLabels) rec[Cumul || measure] = rec[month || measure]
RECURSIVE SnapshotCumul(_, _, _)
SnapshotCumul(rec, month, i) ==
    IF i > Len(measureLabels) THEN rec
    ELSE SnapshotCumul(Put(rec, KColumn(Cumul, measureLabels[i]),
                           Get(rec, KColumn(month, measureLabels[i]))),
                       month, i + 1)

\* the month whose values the boundary leaf's cumulative columns take
FirstMonth(ms) == ToStr(ms[1])
\* the month whose values the grand total's cumulative columns take
LastMonth(ms) == ToStr(ms[Len(ms)])

WithSnapshot(records, category, month) ==
    LET f == FindCategory(records, Str(category))
    IN IF f = 0 THEN records ELSE [records EXCEPT ![f] = SnapshotCumul(records[f], month, 1)]

RECURSIVE GrandTotalLevels(_, _, _)
GrandTotalLevels(rec, n, i) ==
    IF i > n THEN rec
    ELSE GrandTotalLevels(
            Put(Put(Put(rec, KLevel(i), Str(GrandTotal)), KOrder, Num(GrandTotalOrder)),
                KGrandtotal, True),
            n, i + 1)

\* allDataRecords.filter(record => !record.subtotal)
NoSubtotals(records) ==
    Filter(records, [i \in DOMAIN records |-> ~Truthy(Get(records[i], KSubtotal))], 1)

\* a grand total record that does not carry the subtotal flag
GrandTotalRecordUnflagged(records, n, columns) ==
    WithSums(GrandTotalLevels(<<[key |-> KCategory, val |-> Str(GrandTotal)]>>, n, 1),
             NoSubtotals(records), columns, 1)

\* grandTotalRecord = { category: 'Grand Total', subtotal: true }, its levels and its sums
GrandTotalRecord(records, n, columns) ==
    WithSums(GrandTotalLevels(<<[key |-> KCategory, val |-> Str(GrandTotal)],
                                [key |-> KSubtotal, val |-> True]>>, n, 1),
             NoSubtotals(records), columns, 1)

----------------------------------------------------------------------------
(* The final sort *)

\* a comparator that puts the later of two records of one level-1 label first
FinalCompareTieFirst(a, b, ord, n) ==
    IF n >= 1
    THEN IF Get(a, KLevel(1)) # Get(b, KLevel(1))
         THEN IndexOf(ord[1], Get(a, KLevel(1))) - IndexOf(ord[1], Get(b, KLevel(1)))
         ELSE -1
    ELSE -1

\* the comparator of the final sort
FinalCompare(a, b, ord, n) ==
    IF n >= 1
    THEN IF Get(a, KLevel(1)) # Get(b, KLevel(1))
         THEN IndexOf(ord[1], Get(a, KLevel(1))) - IndexOf(ord[1], Get(b, KLevel(1)))
         ELSE 1
    ELSE -1

SortFinal(records, ord, n) ==
    LET c == [i \in DOMAIN records, j \in DOMAIN records |->
                 FinalCompare(records[i], records[j], ord, n)]
        p == SortPositions(Len(records), c)
    IN [i \in DOMAIN records |-> records[p[i]]]

\* the period names of the model in ascending string order
PeriodNames == <<"2024-01", "2024-02">>
Rank(t) == IF \E i \in DOMAIN PeriodNames : <<PeriodNames[i]>> = t
           THEN CHOOSE i \in DOMAIN PeriodNames : <<PeriodNames[i]>> = t
           ELSE 0

\* months.sort() left undone
SortMonthsSkipped(ms) == ms

\* months.sort(): the default comparison of the strings
SortMonths(ms) ==
    LET c == [i \in DOMAIN ms, j \in DOMAIN ms |->
                 IF Rank(ToStr(ms[i])) < Rank(ToStr(ms[j])) THEN -1
                 ELSE IF Rank(ToStr(ms[i])) > Rank(ToStr(ms[j])) THEN 1 ELSE 0]
        p == SortPositions(Len(ms), c)
    IN [i \in DOMAIN ms |-> ms[p[i]]]

\* columnHelper.group({ id, columns: measures.map(measure => accessor with id `id || measure`) })
ColumnGroup(id, measures) ==
    [id |-> id, columns |-> [i \in DOMAIN measures |-> KColumn(id, measures[i])]]

\* the category column, one group per month and the Cumul group
ColumnsOf(ms) ==
    <<[id |-> KCategory, columns |-> <<>>]>>
    \o [k \in DOMAIN ms |-> ColumnGroup(ToStr(ms[k]), measureLabels)]
    \o <<ColumnGroup(Cumul, measureLabels)>>

----------------------------------------------------------------------------
(* The inputs of the model *)

MaxRows == 3
MaxRaggedRows == 2
MaxRerunRows == 2

Plan == <<"Plan">>
Actual == <<"Actual">>

\* the slots as render reads them: the number of columns bound to 'category', 'columns'
\* and 'order', and the localized labels of the columns bound to 'measure'
Slots(c, k, o, m) == [category |-> c, columns |-> k, order |-> o, measure |-> m]

\* a period cell
P(p) == Str(<<PeriodNames[p]>>)

\* measure values that tell the rows of a sum apart
Weight(p, t) == (2 ^ (t - 1)) * (IF p = 1 THEN 1 ELSE 32)

\* one category level, one measure
OneLevelLabels == << <<"A">>, <<"B">>, GrandTotal >>
OneLevelRows ==
    { <<P(p), Str(OneLevelLabels[t]), Num(Weight(p, t))>> : p \in 1..2, t \in 1..3 }

\* two category levels, one measure
TwoLevelLabels ==
    << << <<"A">>, <<"X">> >>, << <<"A">>, <<"Y">> >>, << <<"B">>, <<"X">> >>,
       << Initial, <<"Solde Initial">> >>, << CashflowNet, <<"X">> >> >>
TwoLevelRows ==
    { <<P(p), Str(TwoLevelLabels[t][1]), Str(TwoLevelLabels[t][2]), Num(Weight(p, t))>> :
        p \in 1..2, t \in 1..5 }

\* two category levels, one measure: a closing balance next to the net cash flow
BoundaryLabels == << << Final, <<"X">> >>, << CashflowNet, <<"X">> >>, << <<"A">>, <<"X">> >> >>
BoundaryRows ==
    { <<P(p), Str(BoundaryLabels[t][1]), Str(BoundaryLabels[t][2]), Num(Weight(p, t))>> :
        p \in 1..2, t \in 1..3 }

\* two category levels, one measure: labels that contain the separator themselves
SeparatorLabels ==
    << << <<"A", "||", "B">>, <<"C">> >>, << <<"A">>, <<"B", "||", "C">> >>,
       << <<"A">>, <<"C">> >> >>
SeparatorRows ==
    { <<P(p), Str(SeparatorLabels[t][1]), Str(SeparatorLabels[t][2]), Num(Weight(p, t))>> :
        p \in 1..2, t \in 1..3 }

\* one category level, two measures; the first label comes with either pair of values
GapValues == { <<5, 3>>, <<-1, 2>> }
GapRows ==
    { <<P(p), Str(<<"A">>), Num(v[1]), Num(v[2])>> : p \in 1..2, v \in GapValues }
    \cup { <<P(p), Str(<<"B">>), Num(5), Num(3)>> : p \in 1..2 }

\* two category levels, two measures
TwoLevelGapRows ==
    { <<P(p), Str(TwoLevelLabels[t][1]), Str(TwoLevelLabels[t][2]),
        Num(Weight(p, t)), Num(3 * Weight(p, t) + 1)>> : p \in 1..2, t \in 1..3 }

\* an order column, one category level, one measure
OrderedLabels == << <<"A">>, <<"B">>, <<"C">> >>
OrderedRows ==
    { <<P(1), Num(o), Str(OrderedLabels[t]), Num(Weight(1, t))>> : o \in 0..2, t \in 1..3 }

\* no category level: a period and two measures
NoLevelRows == { <<P(p), Num(v[1]), Num(v[2])>> : p \in 1..2, v \in GapValues }

\* rows of every length from 2 to 5: a period, c category cells and m measure cells
RaggedShapes == { <<0, 1>>, <<1, 1>>, <<0, 2>>, <<2, 1>>, <<1, 2>>, <<2, 2>> }
RaggedRows ==
    { <<P(1)>> \o SubSeq(<<Str(<<"A">>), Str(<<"X">>)>>, 1, sh[1])
               \o SubSeq(<<Num(1), Num(2)>>, 1, sh[2]) : sh \in RaggedShapes }
RaggedSlots ==
    { Slots(c, k, o, SubSeq(<<Plan, Actual>>, 1, m)) : c \in 0..2, k \in 0..1, o \in 0..1, m \in 0..2 }

\* a family of inputs: the slots of a chart and the rows its data is made of
Family(sl, rows, n) == [slots |-> sl, rows |-> rows, n |-> n]

\* a chart whose measure slot is still empty: rows of a period and a category
IncompleteRows == { <<P(p), Str(OneLevelLabels[t])>> : p \in 1..2, t \in 1..2 }

\* the inputs of a chart with one time column: every row has the cells the slots ask for
TableInputs ==
    { Family(Slots(1, 0, 0, <<>>), IncompleteRows, MaxRaggedRows),
      Family(Slots(1, 0, 0, <<Plan>>), OneLevelRows, MaxRows),
      Family(Slots(2, 0, 0, <<Plan>>), TwoLevelRows, MaxRows),
      Family(Slots(2, 0, 0, <<Plan>>), BoundaryRows, MaxRows),
      Family(Slots(2, 0, 0, <<Plan>>), SeparatorRows, MaxRows),
      Family(Slots(1, 0, 0, <<Plan, Actual>>), GapRows, MaxRows),
      Family(Slots(2, 0, 0, <<Plan, Actual>>), TwoLevelGapRows, MaxRows),
      Family(Slots(1, 0, 1, <<Plan>>), OrderedRows, MaxRows),
      Family(Slots(0, 0, 0, <<Plan, Actual>>), NoLevelRows, MaxRows) }

\* and the inputs whose rows do not fit the slots
Inputs == TableInputs \cup { Family(sl, RaggedRows, MaxRaggedRows) : sl \in RaggedSlots }

----------------------------------------------------------------------------
(* The run of render *)

Terminal == {"done", "nodata", "fillin", "threw"}

\* a record list that outlives the call
NewRecordListKept == allDataRecords

\* let allDataRecords = []
NewRecordList == <<>>
\* let months = []
NewMonths == <<>>

\* the arguments of render: data of at most `most` rows from one of the families
InitWith(inputs, most) ==
    /\ \E in \in inputs : \E len \in 0..Min(in.n, most) : \E d \in [1..len -> in.rows] :
          data = d /\ slots = in.slots
    /\ pc = "idle"
    /\ run = 1
    /\ rowIdx = 1
    /\ numberOfCategories = 0
    /\ months = <<>>
    /\ allDataRecords = <<>>
    /\ orders = <<>>
    /\ measuresInAllRecords = <<>>
    /\ container = ""
    /\ firstData = data
    /\ firstOut = <<>>
    /\ columnDefs = <<>>

Init == InitWith(Inputs, MaxRows)

InitTable == InitWith(TableInputs, MaxRows)

InitTwice == InitWith(Inputs, MaxRerunRows)

\* data.length === 0: the 'No data available' table
RenderNoData ==
    /\ pc = "idle"
    /\ IsEmptyInput(data)
    /\ numberOfCategories' = NumberOfCategories(data)
    /\ container' = "No data available"
    /\ pc' = "nodata"
    /\ UNCHANGED <<data, slots, run, rowIdx, months, allDataRecords, orders,
                   measuresInAllRecords, firstData, firstOut, columnDefs>>

\* data[0].length < 3: the 'Fill in all the columns' table
RenderFillIn ==
    /\ pc = "idle"
    /\ ~IsEmptyInput(data)
    /\ IsShortInput(data)
    /\ numberOfCategories' = NumberOfCategories(data)
    /\ container' = "Fill in all the columns"
    /\ pc' = "fillin"
    /\ UNCHANGED <<data, slots, run, rowIdx, months, allDataRecords, orders,
                   measuresInAllRecords, firstData, firstOut, columnDefs>>

\* neither early return: the locals of the aggregation are created
RenderBegin ==
    /\ pc = "idle"
    /\ ~IsEmptyInput(data)
    /\ ~IsShortInput(data)
    /\ numberOfCategories' = NumberOfCategories(data)
    /\ container' = "scroll"
    /\ months' = NewMonths
    /\ allDataRecords' = NewRecordList
    /\ rowIdx' = 1
    /\ pc' = IF Len(data) = 0 THEN "cumul" ELSE "aggregate"
    /\ UNCHANGED <<data, slots, run, orders, measuresInAllRecords, firstData, firstOut, columnDefs>>

\* one iteration of data.forEach
AggregateRow ==
    /\ pc = "aggregate"
    /\ rowIdx <= Len(data)
    /\ months' = MonthsWith(months, data[rowIdx])
    /\ allDataRecords' = AggregateOne(allDataRecords, data[rowIdx], numberOfCategories)
    /\ rowIdx' = rowIdx + 1
    /\ pc' = IF rowIdx = Len(data) THEN "cumul" ELSE "aggregate"
    /\ UNCHANGED <<data, slots, run, numberOfCategories, orders, measuresInAllRecords,
                   container, firstData, firstOut, columnDefs>>

\* if (hasCumul) allDataRecords.forEach(...)
AddCumul ==
    /\ pc = "cumul"
    /\ allDataRecords' = WithCumul(allDataRecords, months)
    /\ pc' = "order"
    /\ UNCHANGED <<data, slots, run, rowIdx, numberOfCategories, months, orders,
                   measuresInAllRecords, container, firstData, firstOut, columnDefs>>

\* the sort by order and the order lists of the levels
ResolveOrder ==
    /\ pc = "order"
    /\ allDataRecords' = SortByOrder(allDataRecords)
    /\ orders' = OrdersOf(allDataRecords', numberOfCategories)
    /\ pc' = "subtotal"
    /\ UNCHANGED <<data, slots, run, rowIdx, numberOfCategories, months,
                   measuresInAllRecords, container, firstData, firstOut, columnDefs>>

\* measuresInAllRecords and, with more than one level, the subtotal records
AddSubtotals ==
    /\ pc = "subtotal"
    /\ measuresInAllRecords' = MeasuresInAllRecords(allDataRecords, numberOfCategories)
    /\ allDataRecords' =
          IF numberOfCategories > 1
          THEN WithSubtotals(allDataRecords, orders[1], numberOfCategories,
                             measuresInAllRecords', 1)
          ELSE allDataRecords
    /\ pc' = "initial"
    /\ UNCHANGED <<data, slots, run, rowIdx, numberOfCategories, months, orders,
                   container, firstData, firstOut, columnDefs>>

\* the cumulative columns of 'Initial || Solde Initial' take the first month's values
CorrectInitial ==
    /\ pc = "initial"
    /\ allDataRecords' = WithSnapshot(allDataRecords, InitialSolde, FirstMonth(months))
    /\ pc' = "grandtotal"
    /\ UNCHANGED <<data, slots, run, rowIdx, numberOfCategories, months, orders,
                   measuresInAllRecords, container, firstData, firstOut, columnDefs>>

\* orders['category-1'].push('Grand Total') and the grand total record
AddGrandTotal ==
    /\ pc = "grandtotal"
    /\ numberOfCategories >= 1
    /\ orders' = [orders EXCEPT ![1] = Append(@, Str(GrandTotal))]
    /\ allDataRecords' = Append(allDataRecords,
                                GrandTotalRecord(allDataRecords, numberOfCategories,
                                                 measuresInAllRecords))
    /\ pc' = "gtcumul"
    /\ UNCHANGED <<data, slots, run, rowIdx, numberOfCategories, months,
                   measuresInAllRecords, container, firstData, firstOut, columnDefs>>

\* without a category level orders['category-1'] is undefined and push throws
GrandTotalThrows ==
    /\ pc = "grandtotal"
    /\ numberOfCategories < 1
    /\ pc' = "threw"
    /\ UNCHANGED <<data, slots, run, rowIdx, numberOfCategories, months, allDataRecords,
                   orders, measuresInAllRecords, container, firstData, firstOut, columnDefs>>

\* the cumulative columns of 'Grand Total' take the last month's values
CorrectGrandTotal ==
    /\ pc = "gtcumul"
    /\ allDataRecords' = WithSnapshot(allDataRecords, GrandTotal, LastMonth(months))
    /\ pc' = "sort"
    /\ UNCHANGED <<data, slots, run, rowIdx, numberOfCategories, months, orders,
                   measuresInAllRecords, container, firstData, firstOut, columnDefs>>

\* the final sort, months.sort() and the table
SortAndRender ==
    /\ pc = "sort"
    /\ allDataRecords' = SortFinal(allDataRecords, orders, numberOfCategories)
    /\ months' = SortMonths(months)
    /\ columnDefs' = ColumnsOf(months')
    /\ container' = "table"
    /\ pc' = "done"
    /\ UNCHANGED <<data, slots, run, rowIdx, numberOfCategories, orders,
                   measuresInAllRecords, firstData, firstOut>>

\* what a call of render leaves behind
Output ==
    [records |-> allDataRecords, months |-> months, columns |-> columnDefs,
     container |-> container, pc |-> pc]

\* render is called again with the same arguments
Rerender ==
    /\ pc \in Terminal
    /\ run = 1
    /\ run' = 2
    /\ firstOut' = Output
    /\ pc' = "idle"
    /\ UNCHANGED <<data, slots, rowIdx, numberOfCategories, months, allDataRecords, orders,
                   measuresInAllRecords, container, firstData, columnDefs>>

Next ==
    \/ RenderNoData
    \/ RenderFillIn
    \/ RenderBegin
    \/ AggregateRow
    \/ AddCumul
    \/ ResolveOrder
    \/ AddSubtotals
    \/ CorrectInitial
    \/ AddGrandTotal
    \/ GrandTotalThrows
    \/ CorrectGrandTotal
    \/ SortAndRender

Spec == Init /\ [][Next]_vars

NextTwice == Next \/ Rerender

\* the runs on inputs whose rows fit the slots
SpecTable == InitTable /\ [][Next]_vars

\* shorter inputs, each run followed by a second call of render
SpecTwice == InitTwice /\ [][NextTwice]_vars

----------------------------------------------------------------------------
(* Vocabulary of the properties *)

IsLeaf(r) == ~Truthy(Get(r, KSubtotal)) /\ ~Truthy(Get(r, KGrandtotal))
IsGrandTotalRecord(r) == Truthy(Get(r, KGrandtotal))
IsSubtotalRecord(r) == Truthy(Get(r, KSubtotal)) /\ ~Truthy(Get(r, KGrandtotal))

Leaves == { i \in DOMAIN allDataRecords : IsLeaf(allDataRecords[i]) }
PeriodSet == { ToStr(months[i]) : i \in DOMAIN months }
MeasureSet == { measureLabels[i] : i \in DOMAIN measureLabels }
Columns == { KColumn(p, m) : p \in PeriodSet, m \in MeasureSet }

\* the value of a column in a record, a missing value counting as 0
Present(r, col) == IF Get(r, col).k = "n" THEN Get(r, col).n ELSE 0

\* the sum of a column over the records at the positions idx
RECURSIVE PresentSum(_, _)
PresentSum(idx, col) ==
    IF idx = {} THEN 0
    ELSE LET i == CHOOSE x \in idx : TRUE
         IN Present(allDataRecords[i], col) + PresentSum(idx \ {i}, col)

LeavesOf(label) == { i \in Leaves : Get(allDataRecords[i], KLevel(1)) = label }

\* some leaf lacks a value that another leaf has
Sparse ==
    \E i \in Leaves, j \in Leaves, col \in Columns :
        Has(allDataRecords[j], col) /\ ~Has(allDataRecords[i], col)

\* every value of the bound measures in the record is a number >= 0
NonNegative(r) ==
    \A p \in PeriodSet, i \in 1..numberOfMeasures :
        Has(r, KColumn(p, measureLabels[i]))
            => Get(r, KColumn(p, measureLabels[i])).k = "n" /\ Get(r, KColumn(p, measureLabels[i])).n >= 0

\* the sum of a record's values of a measure over the first k months
RECURSIVE PeriodSum(_, _, _)
PeriodSum(r, m, k) ==
    IF k = 0 THEN 0 ELSE Present(r, KColumn(ToStr(months[k]), m)) + PeriodSum(r, m, k - 1)

\* the months in the order in which the rows bring them
RECURSIVE ArrivalMonths(_, _)
ArrivalMonths(d, i) == IF i = 0 THEN <<>> ELSE MonthsWith(ArrivalMonths(d, i - 1), d[i])

----------------------------------------------------------------------------
(* C1 - Conservation: for every period and measure (Gap included), the     *)
(* Grand Total's value in the column equals the sum of the column over all *)
(* leaf records, whatever the order and the sparsity of the rows.          *)
C1_Conservation ==
    pc = "done" =>
        \A g \in DOMAIN allDataRecords : IsGrandTotalRecord(allDataRecords[g]) =>
            \A col \in Columns : Get(allDataRecords[g], col) = Num(PresentSum(Leaves, col))

(* C2 - Subtotal conservation: with more than one category level, the      *)
(* subtotal of every top-level label other than Initial, Final and         *)
(* Cashflow Net holds, in every period x measure column, the sum of the    *)
(* column over the leaves with that top-level label.                       *)
C2_SubtotalConservation ==
    (pc = "done" /\ numberOfCategories > 1) =>
        \A i \in Leaves :
            LET label == Get(allDataRecords[i], KLevel(1))
            IN (~IsBoundary(label) /\ label # Str(CashflowNet)) =>
                  \E s \in DOMAIN allDataRecords :
                      /\ IsSubtotalRecord(allDataRecords[s])
                      /\ Get(allDataRecords[s], KCategory) = label
                      /\ \A col \in Columns :
                            Get(allDataRecords[s], col) = Num(PresentSum(LeavesOf(label), col))

(* C3 - Key uniqueness: at every point of a run no two leaf records have   *)
(* the same category key.                                                  *)
C3_KeyUniqueness ==
    \A i \in Leaves, j \in Leaves :
        i # j => Get(allDataRecords[i], KCategory) # Get(allDataRecords[j], KCategory)

\* a finished run in which rows were folded into existing records
C3_Witness ==
    /\ pc = "done"
    /\ Cardinality(Leaves) >= 2
    /\ Len(data) > Cardinality(Leaves)

(* C4 - Gap derivation: with exactly two measures, every leaf has, in      *)
(* every period it has values for, Gap = measure 2 - measure 1; with any   *)
(* other number of measures no record has a Gap column.                    *)
C4_GapDerivation ==
    pc = "done" =>
        /\ numberOfMeasures = 2 =>
              \A i \in Leaves, p \in PeriodSet :
                  Has(allDataRecords[i], KColumn(p, measureLabels[1])) =>
                      /\ Has(allDataRecords[i], KColumn(p, Gap))
                      /\ Get(allDataRecords[i], KColumn(p, Gap)) =
                            Minus(Get(allDataRecords[i], KColumn(p, measureLabels[2])),
                                  Get(allDataRecords[i], KColumn(p, measureLabels[1])))
        /\ numberOfMeasures # 2 =>
              \A i \in DOMAIN allDataRecords, p \in PeriodSet \cup {Cumul} :
                  ~Has(allDataRecords[i], KColumn(p, Gap))

\* a finished run with two measures and a leaf whose Gap is negative
C4_Witness ==
    /\ pc = "done"
    /\ numberOfMeasures = 2
    /\ \E i \in Leaves, p \in PeriodSet :
          /\ Get(allDataRecords[i], KColumn(p, Gap)).k = "n"
          /\ Get(allDataRecords[i], KColumn(p, Gap)).n < 0


C6_Idempotence ==
    (run = 2 /\ pc \in Terminal) => (Output = firstOut /\ data = firstData)

\* the second call has finished a table with leaves, subtotals and a grand total
C6_Witness ==
    /\ run = 2
    /\ pc = "done"
    /\ \E i \in DOMAIN allDataRecords : IsSubtotalRecord(allDataRecords[i])
    /\ Cardinality(Leaves) >= 2

(* C7 - Empty input: with no input row render shows 'No data available'    *)
(* and stops; no record is produced.                                       *)
C7_EmptyInput ==
    (Len(data) = 0 /\ pc # "idle") =>
        (pc = "nodata" /\ container = "No data available" /\ allDataRecords = <<>>)

C7_Witness == pc = "nodata" /\ Len(data) = 0

C9_LayoutConsistency ==
    (pc = "aggregate" /\ rowIdx <= Len(data)) =>
        numberOfCategories + numberOfMeasures + (IF hasOrder THEN 1 ELSE 0) + 1
            = Len(data[rowIdx])

(* C10 - Zero-filling: when a leaf lacks a value that another leaf has,    *)
(* every period x measure column of every subtotal and of the grand total  *)
(* and every Cumul column of every leaf is a number, the sum of the values *)
(* that are present.                                                       *)
C10_ZeroFilling ==
    (pc = "done" /\ Sparse) =>
        /\ \A s \in DOMAIN allDataRecords, col \in Columns :
              ~IsLeaf(allDataRecords[s]) => Get(allDataRecords[s], col).k = "n"
        /\ \A i \in Leaves, m \in MeasureSet :
              Get(allDataRecords[i], KColumn(Cumul, m)).k = "n"

----------------------------------------------------------------------------
(* Vocabulary of the properties about the totals and the final order *)

GrandTotals == { i \in DOMAIN allDataRecords : IsGrandTotalRecord(allDataRecords[i]) }
Subtotals == { i \in DOMAIN allDataRecords : IsSubtotalRecord(allDataRecords[i]) }

\* the two boundary labels
Boundary == { Str(Initial), Str(Final) }

\* the last of the periods in ascending order
LastPeriod == CHOOSE p \in PeriodSet : \A q \in PeriodSet : Rank(q) <= Rank(p)
\* the first of the periods in ascending order
FirstPeriod == CHOOSE p \in PeriodSet : \A q \in PeriodSet : Rank(p) <= Rank(q)

(* C11 - Grand-total cumulative snapshot: in the final output, for every   *)
(* measure, the Grand Total record's Cumul column equals the Grand Total's *)
(* own value in the column of the last period in ascending order, whatever *)
(* the order in which the rows arrive.                                     *)
C11_GrandTotalCumul ==
    pc = "done" =>
        \A g \in GrandTotals, m \in MeasureSet :
            Get(allDataRecords[g], KColumn(Cumul, m)) =
                Get(allDataRecords[g], KColumn(LastPeriod, m))

(* C12 - Boundary cumulative snapshot: in the final output every leaf      *)
(* whose level-1 label is 'Initial' or 'Final' has, for every measure,     *)
(* Cumul = its value in the first period in ascending order, not the sum   *)
(* over the periods.                                                       *)
C12_BoundarySnapshot ==
    pc = "done" =>
        \A i \in Leaves : Get(allDataRecords[i], KLevel(1)) \in Boundary =>
            \A m \in MeasureSet :
                Get(allDataRecords[i], KColumn(Cumul, m)) =
                    Get(allDataRecords[i], KColumn(FirstPeriod, m))

(* C13 - Exactly one grand total: every run that produces records, with    *)
(* any number of category levels >= 0, ends with a record list that holds  *)
(* exactly one record marked grandtotal, labelled 'Grand Total' at every   *)
(* category level.                                                         *)
C13_ExactlyOneGrandTotal ==
    (pc \in Terminal /\ allDataRecords # <<>>) =>
        /\ Cardinality(GrandTotals) = 1
        /\ \A g \in GrandTotals, l \in 1..numberOfCategories :
              Get(allDataRecords[g], KLevel(l)) = Str(GrandTotal)

\* the category keys of the rows: the key of a row joins its category cells
RowKey(row) == Get(BuildCategories(row, numberOfCategories, 0, <<>>, <<>>), KCategory)

(* C14 - Exclusive classification: every record of the output is exactly   *)
(* one of leaf, subtotal or grand total as told by its flags: a leaf has   *)
(* neither flag, a subtotal the subtotal flag only, and the grand total    *)
(* the grandtotal flag without the subtotal flag.                          *)
C14_ExclusiveFlags ==
    pc = "done" =>
        \A i \in DOMAIN allDataRecords :
            LET r == allDataRecords[i]
            IN \/ ~Has(r, KSubtotal) /\ ~Has(r, KGrandtotal)
               \/ Get(r, KSubtotal) = True /\ ~Has(r, KGrandtotal)
               \/ Get(r, KGrandtotal) = True /\ ~Has(r, KSubtotal)

(* C14 as amended: every record of the output is exactly one of            *)
(*   a leaf: neither flag, and its key is the key of an input row;         *)
(*   a subtotal: the subtotal flag only, every level labelled with its key;*)
(*   the grand total: the grandtotal flag together with the subtotal flag, *)
(*   keyed 'Grand Total'.                                                  *)
C14_Classification ==
    pc = "done" =>
        \A i \in DOMAIN allDataRecords :
            LET r == allDataRecords[i]
            IN \/ /\ ~Has(r, KSubtotal) /\ ~Has(r, KGrandtotal)
                  /\ \E d \in DOMAIN data : RowKey(data[d]) = Get(r, KCategory)
               \/ /\ Get(r, KSubtotal) = True /\ ~Has(r, KGrandtotal)
                  /\ numberOfCategories > 1
                  /\ \A l \in 1..numberOfCategories : Get(r, KLevel(l)) = Get(r, KCategory)
               \/ /\ Get(r, KGrandtotal) = True /\ Get(r, KSubtotal) = True
                  /\ Get(r, KCategory) = Str(GrandTotal)

\* a finished table with a leaf, a subtotal and the grand total carrying both flags
C14_Witness ==
    /\ pc = "done"
    /\ Leaves # {}
    /\ Subtotals # {}
    /\ \E g \in GrandTotals : Get(allDataRecords[g], KSubtotal) = True

\* the subtotal records made for a level-1 label
SubtotalsOf(label) == { s \in Subtotals : Get(allDataRecords[s], KCategory) = label }

(* C15 - Subtotal set: with more than one category level the output holds  *)
(* exactly one subtotal record for every level-1 label of a leaf other     *)
(* than 'Initial' and 'Final', with every level labelled by that label,    *)
(* and none for 'Initial' and 'Final'; with at most one category level     *)
(* there is no subtotal record.                                            *)
C15_SubtotalSet ==
    /\ numberOfCategories <= 1 => Subtotals = {}
    /\ (pc = "done" /\ numberOfCategories > 1) =>
          /\ \A i \in Leaves :
                LET label == Get(allDataRecords[i], KLevel(1))
                IN Cardinality(SubtotalsOf(label)) = IF label \in Boundary THEN 0 ELSE 1
          /\ \A s \in Subtotals :
                /\ LeavesOf(Get(allDataRecords[s], KCategory)) # {}
                /\ \A l \in 1..numberOfCategories :
                      Get(allDataRecords[s], KLevel(l)) = Get(allDataRecords[s], KCategory)

\* a finished table of two levels with a 'Final' leaf and the subtotals of two other labels
C15_Witness ==
    /\ pc = "done"
    /\ numberOfCategories > 1
    /\ LeavesOf(Str(Final)) # {}
    /\ Cardinality(Subtotals) = 2

\* the leaves whose level-1 label is neither 'Initial' nor 'Final'
FlowLeaves == { i \in Leaves : Get(allDataRecords[i], KLevel(1)) \notin Boundary }

(* C16 - Cross-cutting rollup: the subtotal record of the level-1 label    *)
(* 'Cashflow Net' holds, in every column, the sum of the column over all   *)
(* leaves whose level-1 label is neither 'Initial' nor 'Final', whatever   *)
(* their own level-1 label; no subtotal record is part of the sum.         *)
C16_CashflowNetRollup ==
    (pc = "done" /\ numberOfCategories > 1) =>
        \A s \in SubtotalsOf(Str(CashflowNet)), col \in Columns :
            Get(allDataRecords[s], col) = Num(PresentSum(FlowLeaves, col))

(* C17 - Subtotal placement: in the final sorted record list every         *)
(* subtotal record stands immediately after the last leaf that has its     *)
(* level-1 label, and no leaf of that label stands after it.               *)
C17_SubtotalPlacement ==
    pc = "done" =>
        \A s \in Subtotals :
            LET group == LeavesOf(Get(allDataRecords[s], KLevel(1)))
            IN /\ s - 1 \in group
               /\ \A i \in group : i < s

\* a finished table whose rows brought the two leaves of a label with another label between
C17_Witness ==
    /\ pc = "done"
    /\ numberOfCategories = 2
    /\ Len(data) = 3
    /\ Cell(data[1], 1) = Cell(data[3], 1)
    /\ Cell(data[1], 1) # Cell(data[2], 1)
    /\ Cell(data[1], 2) # Cell(data[3], 2)
    /\ Cardinality(Subtotals) = 2

(* C18 - Grand total last: in the final sorted record list the Grand Total *)
(* record is the last record, for every input, a category labelled         *)
(* 'Grand Total' included.                                                 *)
C18_GrandTotalLast ==
    pc = "done" => IsGrandTotalRecord(allDataRecords[Len(allDataRecords)])

(* C19 - Graceful degradation: for every input of one or more rows that    *)
(* all have at least 3 cells, and every layout with 0 or more category     *)
(* levels, render runs to its end without throwing.                        *)
C19_GracefulDegradation ==
    (Len(data) >= 1 /\ \A i \in DOMAIN data : Len(data[i]) >= 3) => pc # "threw"

\* the first level at which two records carry different labels, 0 if there is none
FirstDifference(a, b) ==
    IF \E l \in 1..numberOfCategories : Get(a, KLevel(l)) # Get(b, KLevel(l))
    THEN CHOOSE l \in 1..numberOfCategories :
            /\ Get(a, KLevel(l)) # Get(b, KLevel(l))
            /\ \A k \in 1..(l - 1) : Get(a, KLevel(k)) = Get(b, KLevel(k))
    ELSE 0

(* C20 - Multi-level ordering: in the final sorted record list two leaves  *)
(* with the same level-1 label that differ first at a deeper level stand   *)
(* in the order of their labels of that level in the level's order list.   *)
C20_MultiLevelOrdering ==
    pc = "done" =>
        \A i \in Leaves, j \in Leaves :
            LET l == FirstDifference(allDataRecords[i], allDataRecords[j])
            IN (i < j /\ l >= 2) =>
                  IndexOf(orders[l], Get(allDataRecords[i], KLevel(l)))
                      < IndexOf(orders[l], Get(allDataRecords[j], KLevel(l)))

----------------------------------------------------------------------------
(* Vocabulary of the properties about the rows and their records *)

\* the category keys of the first i rows in the order in which the rows bring them
RECURSIVE CreationKeys(_, _)
CreationKeys(d, i) ==
    IF i = 0 THEN <<>>
    ELSE LET before == CreationKeys(d, i - 1)
         IN IF Includes(before, RowKey(d[i])) THEN before ELSE Append(before, RowKey(d[i]))

\* the record carries a number as its order
HasNumericOrder(r) == Get(r, KOrder).k = "n"

(* C21 - Row-level order: after the row-level sort, of any two leaves that *)
(* both carry a numeric order (0 included) the one with the smaller order  *)
(* comes first, also when other leaves carry no order; when no leaf        *)
(* carries an order the leaves are in creation order.                      *)
C21_RowLevelOrder ==
    pc = "subtotal" =>
        /\ \A i \in DOMAIN allDataRecords, j \in DOMAIN allDataRecords :
              ( /\ HasNumericOrder(allDataRecords[i])
                /\ HasNumericOrder(allDataRecords[j])
                /\ Get(allDataRecords[i], KOrder).n < Get(allDataRecords[j], KOrder).n ) => i < j
        /\ (\A i \in DOMAIN allDataRecords : ~Has(allDataRecords[i], KOrder)) =>
              [i \in DOMAIN allDataRecords |-> Get(allDataRecords[i], KCategory)]
                  = CreationKeys(data, Len(data))

\* the cells of the sample row left for categories: its length minus the period cell,
\* the order cell if an order is bound, and the measure cells
AvailableCategoryCells ==
    IF Len(data) = 0 THEN 0
    ELSE Max(0, Len(data[1]) - 1 - (IF slots.order > 0 THEN 1 ELSE 0) - Len(slots.measure))

\* render has resolved the layout
LayoutResolved == pc # "idle"

(* C22 - Layout clamp: the resolved number of category levels never        *)
(* exceeds the number of category cells available in the sample row, and   *)
(* is at least 1 when a 'columns' slot is bound.                           *)
C22_LayoutClamp ==
    LayoutResolved =>
        /\ numberOfCategories <= AvailableCategoryCells
        /\ slots.columns > 0 => numberOfCategories >= 1

(* C22 as amended: the resolved number of category levels is at least 0,   *)
(* never exceeds the number of category cells available in the sample row  *)
(* when no 'columns' slot is bound, and with a 'columns' slot bound is at  *)
(* least 1 and never exceeds the larger of 1 and that number; it never     *)
(* exceeds the number of bound category and columns slots when any is      *)
(* bound.                                                                  *)
C22_LayoutClampOrOne ==
    LayoutResolved =>
        /\ numberOfCategories >= 0
        /\ slots.columns = 0 => numberOfCategories <= AvailableCategoryCells
        /\ slots.columns > 0 =>
              /\ numberOfCategories >= 1
              /\ numberOfCategories <= Max(1, AvailableCategoryCells)
        /\ slots.category + slots.columns > 0 =>
              numberOfCategories <= slots.category + slots.columns

\* a layout of two bound levels cut down to the one category cell of the sample row
C22_Witness ==
    /\ pc = "done"
    /\ slots.columns > 0
    /\ slots.category + slots.columns = 2
    /\ AvailableCategoryCells = 1
    /\ numberOfCategories = 1

\* the display labels of a row, level by level
RowLabels(row) ==
    [l \in 1..numberOfCategories |-> ToStr(Cell(row, baseIndex + l - 1))]

\* the rows that render has folded into the record list
Aggregated ==
    IF pc \in {"idle", "nodata", "fillin"} THEN {}
    ELSE IF pc = "aggregate" THEN 1..(rowIdx - 1) ELSE DOMAIN data

(* C23 - Record identity: two rows are folded into the same leaf record if *)
(* and only if their display labels are equal at every category level:     *)
(* there are as many leaf records as there are different label tuples      *)
(* among the rows, also when a label contains the separator ' || '.        *)
C23_RecordIdentity ==
    Cardinality(Leaves) = Cardinality({ RowLabels(data[d]) : d \in Aggregated })

\* the category keys of the rows, row by row
RowKeys == [d \in DOMAIN data |-> RowKey(data[d])]

\* the rows folded so far, each with its category key and its period
RowCells ==
    { [d |-> d, key |-> RowKey(data[d]), period |-> ToStr(Cell(data[d], 0))] : d \in Aggregated }

\* no later row of `cells` has the category key and the period of c
IsLastWrite(cells, c) ==
    \A e \in cells : e.d > c.d => (e.key # c.key \/ e.period # c.period)

\* the last of a set of rows in input order
LastOf(rows) == CHOOSE e \in rows : \A f \in rows : f <= e

\* the value a row brings for the i-th bound measure
MeasureCell(row, i) == Cell(row, baseIndex + numberOfCategories + i - 1)

\* the record holds, in the columns of the row's period, the values of the row
HoldsRow(r, row) ==
    LET period == ToStr(Cell(row, 0))
    IN /\ \A m \in 1..numberOfMeasures :
             Get(r, KColumn(period, measureLabels[m])) = MeasureCell(row, m)
       /\ numberOfMeasures = 2 =>
             Get(r, KColumn(period, Gap)) = Minus(MeasureCell(row, 2), MeasureCell(row, 1))

(* C24 - Last write wins: when several rows have the same category key and *)
(* the same period, the leaf record's columns of that period (Gap          *)
(* included) hold the values of the last such row in input order; the      *)
(* record has values for no period that none of its rows brings.           *)
C24_LastWriteWins ==
    LET cells == RowCells
        leaves == Leaves
    IN /\ \A c \in cells : IsLastWrite(cells, c) =>
             \E i \in leaves :
                 /\ Get(allDataRecords[i], KCategory) = c.key
                 /\ HoldsRow(allDataRecords[i], data[c.d])
       /\ \A i \in leaves, p \in PeriodSet, m \in MeasureSet :
             Has(allDataRecords[i], KColumn(p, m)) =>
                 \E c \in cells : /\ c.key = Get(allDataRecords[i], KCategory)
                                  /\ c.period = p

\* a finished table: a record got two different pairs of values for one period, the
\* second pair after a row of the same record for the other period
C24_Witness ==
    /\ pc = "done"
    /\ numberOfMeasures = 2
    /\ Len(data) = 3
    /\ RowKey(data[1]) = RowKey(data[2]) /\ RowKey(data[2]) = RowKey(data[3])
    /\ Cell(data[1], 0) = Cell(data[3], 0)
    /\ Cell(data[1], 0) # Cell(data[2], 0)
    /\ MeasureCell(data[1], 1) # MeasureCell(data[3], 1)

\* some record of the list has a cumulative column
HasCumulColumn(records) ==
    \E i \in DOMAIN records, m \in MeasureSet : Has(records[i], KColumn(Cumul, m))

\* the numbers of leaf, subtotal and grand total records of a list
CountLeaves(records) == Cardinality({ i \in DOMAIN records : IsLeaf(records[i]) })
CountSubtotals(records) == Cardinality({ i \in DOMAIN records : IsSubtotalRecord(records[i]) })
CountGrandTotals(records) == Cardinality({ i \in DOMAIN records : IsGrandTotalRecord(records[i]) })

\* a step of a run creates a leaf only while the list has no cumulative column, no
\* subtotal and no grand total; it writes the first cumulative columns only when every
\* row has been aggregated; it creates a subtotal only while there is no grand total
\* and without creating a leaf; and it creates the grand total without creating a leaf
\* or a subtotal
PhaseOrderStep ==
    /\ CountLeaves(allDataRecords') > CountLeaves(allDataRecords) =>
          /\ ~HasCumulColumn(allDataRecords')
          /\ CountSubtotals(allDataRecords') = 0
          /\ CountGrandTotals(allDataRecords') = 0
    /\ (HasCumulColumn(allDataRecords') /\ ~HasCumulColumn(allDataRecords)) =>
          /\ rowIdx > Len(data)
          /\ months = ArrivalMonths(data, Len(data))
          /\ CountLeaves(allDataRecords') = CountLeaves(allDataRecords)
    /\ CountSubtotals(allDataRecords') > CountSubtotals(allDataRecords) =>
          /\ rowIdx > Len(data)
          /\ CountGrandTotals(allDataRecords') = 0
          /\ CountLeaves(allDataRecords') = CountLeaves(allDataRecords)
    /\ CountGrandTotals(allDataRecords') > CountGrandTotals(allDataRecords) =>
          /\ rowIdx > Len(data)
          /\ CountSubtotals(allDataRecords') = CountSubtotals(allDataRecords)
          /\ CountLeaves(allDataRecords') = CountLeaves(allDataRecords)

(* C25 - Pipeline phase order: in every run the cumulative columns are     *)
(* computed only after all rows have been aggregated (with the full set of *)
(* periods known), no subtotal or grand total record is in the record list *)
(* until every leaf has been created, and the grand total is created after *)
(* all subtotals.                                                          *)
C25_PhaseOrder == [][PhaseOrderStep]_vars

\* a finished run that went through all phases: two periods, leaves of two labels with
\* their cumulative columns, two subtotals and the grand total
C25_Witness ==
    /\ pc = "done"
    /\ Len(months) = 2
    /\ HasCumulColumn(allDataRecords)
    /\ CountLeaves(allDataRecords) = 3
    /\ CountSubtotals(allDataRecords) = 2
    /\ CountGrandTotals(allDataRecords) = 1

\* the periods of the input rows
DataPeriods == { ToStr(Cell(data[d], 0)) : d \in DOMAIN data }

\* the bound measures, followed by Gap when exactly two are bound
SchemaMeasures == IF Len(slots.measure) = 2 THEN slots.measure \o <<Gap>> ELSE slots.measure

\* a block of the schema holds one column per measure, in the order of the measures
IsBlockOf(group, id) ==
    /\ group.id = id
    /\ group.columns = [i \in DOMAIN SchemaMeasures |-> id \o Sep \o SchemaMeasures[i]]

(* C26 - Column schema: the schema lists the category column, then one     *)
(* block per period in ascending period order, every distinct period once, *)
(* each block holding the measures in the order of the measure list with   *)
(* Gap last when exactly two measures are bound, and then exactly one      *)
(* Cumul block with the same measures.                                     *)
C26_ColumnSchema ==
    pc = "done" =>
        LET n == Cardinality(DataPeriods)
        IN /\ Len(columnDefs) = n + 2
           /\ columnDefs[1] = [id |-> KCategory, columns |-> <<>>]
           /\ \A k \in 1..n :
                 /\ columnDefs[k + 1].id \in DataPeriods
                 /\ IsBlockOf(columnDefs[k + 1], columnDefs[k + 1].id)
                 /\ k < n => Rank(columnDefs[k + 1].id) < Rank(columnDefs[k + 2].id)
           /\ IsBlockOf(columnDefs[n + 2], Cumul)

\* a finished table of two measures whose rows brought the later period first
C26_Witness ==
    /\ pc = "done"
    /\ Len(slots.measure) = 2
    /\ Len(data) >= 2
    /\ Rank(ToStr(Cell(data[1], 0))) > Rank(ToStr(Cell(data[2], 0)))
    /\ Len(columnDefs) = 4

\* the subtotal records and the grand total record
Rollups == Subtotals \cup GrandTotals

(* C27 - Complete rollup columns: every subtotal record and the grand      *)
(* total record have a value in every period x measure column of the       *)
(* schema, whichever leaf is first in the record list and whichever        *)
(* periods that leaf has values for.                                       *)
C27_CompleteRollupColumns ==
    pc = "done" =>
        \A s \in Rollups, g \in 2..(Len(columnDefs) - 1) :
            \A c \in DOMAIN columnDefs[g].columns :
                Has(allDataRecords[s], columnDefs[g].columns[c])

(* C28 - Rollup Gap consistency: with exactly two measures bound, in every *)
(* subtotal record and in the grand total record, for every period, Gap is *)
(* a number and equals measure 2 - measure 1 of the record (the difference *)
(* of the sums is the sum of the leaf differences).                        *)
C28_RollupGap ==
    (pc = "done" /\ numberOfMeasures = 2) =>
        \A s \in Rollups, p \in PeriodSet :
            LET r == allDataRecords[s]
            IN /\ Get(r, KColumn(p, Gap)).k = "n"
               /\ Get(r, KColumn(p, Gap)) =
                     Minus(Get(r, KColumn(p, measureLabels[2])),
                           Get(r, KColumn(p, measureLabels[1])))

\* the keys of the cumulative columns
CumulKeys == { KColumn(Cumul, m) : m \in MeasureSet }

\* between two versions of a record nothing but the values of cumulative columns differs
OnlyCumulChanged(before, after) ==
    /\ Keys(after) = Keys(before)
    /\ \A k \in DOMAIN before : after[k] # before[k] => before[k].key \in CumulKeys

\* the step of the first-period correction changes no record but a leaf labelled
\* 'Initial', and of that leaf only cumulative columns; the step of the last-period
\* correction changes no record but the grand total record, and of it only cumulative
\* columns
CorrectionStep ==
    /\ (pc = "initial" /\ pc' = "grandtotal") =>
          /\ Len(allDataRecords') = Len(allDataRecords)
          /\ \A i \in DOMAIN allDataRecords :
                allDataRecords'[i] # allDataRecords[i] =>
                    /\ IsLeaf(allDataRecords[i])
                    /\ Get(allDataRecords[i], KLevel(1)) = Str(Initial)
                    /\ OnlyCumulChanged(allDataRecords[i], allDataRecords'[i])
    /\ (pc = "gtcumul" /\ pc' = "sort") =>
          /\ Len(allDataRecords') = Len(allDataRecords)
          /\ \A i \in DOMAIN allDataRecords :
                allDataRecords'[i] # allDataRecords[i] =>
                    /\ IsGrandTotalRecord(allDataRecords[i])
                    /\ OnlyCumulChanged(allDataRecords[i], allDataRecords'[i])

(* C29 - The two correction passes change only their target record: the    *)
(* first-period correction only the Cumul columns of the 'Initial' leaf    *)
(* (nothing without such a leaf), the last-period correction only the      *)
(* Cumul columns of the grand total record; no other leaf is changed by    *)
(* either pass, also when a leaf is keyed 'Grand Total'.                   *)
C29_CorrectionFrame == [][CorrectionStep]_vars

\* of the aggregated rows, those with the category key of a leaf that bring an order value
OrderRows(keys, r) ==
    IF slots.order > 0
    THEN { d \in Aggregated : keys[d] = Get(r, KCategory) /\ Cell(data[d], 1).k # "u" }
    ELSE {}

\* the first of a set of rows in input order
FirstOf(rows) == CHOOSE e \in rows : \A f \in rows : e <= f

(* C30 - Order seeding: a leaf record's order is the order value of the    *)
(* input row that created the record; later rows with the same category    *)
(* key do not change it.                                                   *)
C30_OrderSeeding ==
    LET keys == RowKeys
    IN \A i \in Leaves :
          LET rows == OrderRows(keys, allDataRecords[i])
          IN rows # {} => Get(allDataRecords[i], KOrder) = Cell(data[FirstOf(rows)], 1)

(* C30 as amended: a leaf record's order is the order value of the last    *)
(* input row with its category key that brings an order; every such row    *)
(* overwrites it.  A leaf none of whose rows brings an order has none.     *)
C30_OrderLastWrite ==
    LET keys == RowKeys
    IN \A i \in Leaves :
          LET rows == OrderRows(keys, allDataRecords[i])
          IN IF rows # {}
             THEN Get(allDataRecords[i], KOrder) = Cell(data[LastOf(rows)], 1)
             ELSE ~Has(allDataRecords[i], KOrder)

\* a finished table with a leaf whose rows brought two different orders
C30_Witness ==
    /\ pc = "done"
    /\ \E i \in Leaves :
          LET rows == OrderRows(RowKeys, allDataRecords[i])
          IN /\ Cardinality(rows) >= 2
             /\ Cell(data[FirstOf(rows)], 1) # Cell(data[LastOf(rows)], 1)

====
